---- MODULE Spec2Model ----
(***************************************************************************)
(* Rootstock GasLens backend (src/backend/index.js): the request handler   *)
(* GET /api/gas/:network, the estimation pass calculateGasPrices with its  *)
(* fan-out of block fetches joined by Promise.all, and the fallback        *)
(* calculateFallbackGasPrices.                                             *)
(*                                                                         *)
(* Numbers: the code computes on IEEE-754 doubles.  Every quantity of the  *)
(* model stays far below 2^53, where integers, their sums, differences and *)
(* products by 1.5 are exact.  The two places where a double result differs*)
(* from the real-number result in that range (products by the literal 0.7, *)
(* which is stored as 0.7 - 0.4 * 2^-53) are modelled by MulFloor, which   *)
(* reproduces Math.floor(n * p) of the double product.                     *)
(***************************************************************************)
EXTENDS Integers, Sequences, FiniteSets, TLC

VARIABLES
    pc,                 \* position of the request handler / estimation pass
    network,            \* req.params.network
    provider,           \* the provider created for the request, or NoProvider
    calls,              \* calls issued to the Chain Data Source, in order
    latestBlockNumber,  \* result of provider.getBlockNumber()
    fetch,              \* blockPromises: state of each block fetch
    blocks,             \* value each settled block fetch resolved to
    gasPrices,          \* samples {price, blockAge, isContractCall}
    transactionTypes,   \* {simple: [...], contract: [...]}
    primaryPrices,      \* reference sequence of the tier selection
    percentiles,        \* chosen band {safeLow, standard, fast} in hundredths
    indices,            \* {safeLowIndex, standardIndex, fastIndex}
    path,               \* "none", "samples" or "fallback"
    basePrice,          \* result of provider.getGasPrice() after parseInt
    result,             \* outcome of calculateGasPrices
    response,           \* HTTP response sent by the handler
    arg,                \* argument of a stand-alone function evaluation
    out,                \* its result
    passes,             \* locals of each of several concurrent passes
    ui                  \* state of the frontend component App

vars == <<pc, network, provider, calls, latestBlockNumber, fetch, blocks,
          gasPrices, transactionTypes, primaryPrices, percentiles, indices,
          path, basePrice, result, response, arg, out, passes, ui>>

passVars == <<pc, network, provider, calls, latestBlockNumber, fetch, blocks,
              gasPrices, transactionTypes, primaryPrices, percentiles,
              indices, path, basePrice, result, response>>

-----------------------------------------------------------------------------
(* Bounds of the model *)

\* window size; the source sets 20, the model scales the window down
BLOCKS_TO_ANALYZE == 2
\* longest reference sequence of the stand-alone index computation
MaxLength == 200
\* largest base price the source reports to getGasPrice
MaxBasePrice == 100
\* largest price of the stand-alone band selection
MaxPrice == 40
\* how far the wide prices reach above each of their starting points
MaxOffset == 7
\* most fetchGasData calls of one network on their way at a time
MaxCalls == 2

-----------------------------------------------------------------------------
(* Values *)

Undefined == "undefined"
NoProvider == [rpcUrl |-> "undefined"]
NoGasPrice == -1             \* tx.gasPrice absent (null / undefined)
None == [kind |-> "none"]

\* tx.data as a string of characters
Bare == <<"0", "x">>
CallData == <<"0", "x", "a", "9", "0", "5">>

NETWORKS ==
    [mainnet |-> "https://public-node.rsk.co",
     testnet |-> "https://public-node.testnet.rsk.co"]

\* properties every object literal inherits from Object.prototype
ObjectPrototypeKeys ==
    {"constructor", "toString", "valueOf", "hasOwnProperty", "__proto__"}

\* NETWORKS[network]: own property, else inherited property, else undefined
NetworksLookup(key) ==
    IF key \in DOMAIN NETWORKS THEN NETWORKS[key]
    ELSE IF key \in ObjectPrototypeKeys THEN "[inherited " \o key \o "]"
    ELSE Undefined

Truthy(v) == v # Undefined /\ v # ""

\* network identifiers a request may carry
NetworkIds == {"mainnet", "testnet", "ropsten", "constructor"}

\* heights the source may report
Heights == {20, 21}

\* transactions the source may report
TxValues ==
    { [gasPrice |-> NoGasPrice, data |-> CallData],
      [gasPrice |-> 0,          data |-> Bare],
      [gasPrice |-> 10,         data |-> Bare],
      [gasPrice |-> 15,         data |-> Bare],
      [gasPrice |-> 10,         data |-> CallData],
      [gasPrice |-> 100,        data |-> CallData] }

\* transaction lists a block may carry: none, one or two transactions
TxLists ==
    {<<>>} \cup { <<t>> : t \in TxValues }
           \cup { <<t, u>> : t \in TxValues, u \in TxValues }

\* what a block fetch may resolve to: null, a block object without a
\* transaction list, or a block with its transactions
BlockValues ==
    { [kind |-> "null", transactions |-> <<>>],
      [kind |-> "noTransactions", transactions |-> <<>>] }
    \cup { [kind |-> "block", transactions |-> t] :
             t \in TxLists }

NotSettled == [kind |-> "notSettled", transactions |-> <<>>]

\* the concurrent passes and the frontend before anything has started
PassIds == {1, 2}
IdlePass ==
    [pc |-> "idle", network |-> Undefined, height |-> "none",
     fetch |-> [i \in 0..(BLOCKS_TO_ANALYZE - 1) |-> "unissued"],
     blocks |-> [i \in 0..(BLOCKS_TO_ANALYZE - 1) |-> NotSettled],
     base |-> "none", basePrice |-> -1, path |-> "none",
     result |-> None]
NoPasses == [p \in PassIds |-> IdlePass]

\* The page: its two cards and the fetchGasData calls on their way.
\* A call waits for fetch ("fetch") or for response.json() ("json").
CardNetworks == {"mainnet", "testnet"}
CallIds == 1..MaxCalls
GasDataValues == {"estimate"}
NoApp ==
    [phase |-> "initial",
     data |-> [n \in CardNetworks |-> "null"],
     loading |-> [n \in CardNetworks |-> FALSE],
     error |-> [n \in CardNetworks |-> "null"],
     calls |-> [n \in CardNetworks |-> [c \in CallIds |-> "free"]]]

\* base prices the source may report to getGasPrice
BasePrices == 0..MaxBasePrice

Window == 0..(BLOCKS_TO_ANALYZE - 1)

-----------------------------------------------------------------------------
(* Conversions *)

\* BigNumber / Number .toString(): decimal digits, most significant first
RECURSIVE toString(_)
toString(n) ==
    IF n < 10 THEN <<n>> ELSE Append(toString(n \div 10), n % 10)

\* parseInt of a string of decimal digits
RECURSIVE parseInt(_)
parseInt(s) ==
    IF Len(s) = 0 THEN 0
    ELSE 10 * parseInt(SubSeq(s, 1, Len(s) - 1)) + s[Len(s)]

\* largest power of two not above x (x >= 1)
RECURSIVE Pow2Floor(_)
Pow2Floor(x) == IF x < 2 THEN 1 ELSE 2 * Pow2Floor(x \div 2)

\* Math.floor(n * p) for the double literal p = pct / 100.
\* The literals 0.1, 0.15, 0.2, 0.4, 0.45, 0.5, 0.75, 0.8 and 1.5 give the
\* real-number floor.  0.7 is stored as 0.7 - 0.4 * 2^-53: when n * 0.7 is an
\* integer N = 7m (n = 10m) the exact product is N - m * 2^-51, which rounds
\* to the double below N exactly when 4m exceeds the power of two at or
\* below N, and the floor is then N - 1 (90 * 0.7 = 62.99999999999999).
MulFloor(n, pct) ==
    IF pct = 70 /\ n > 0 /\ n % 10 = 0
       /\ 4 * (n \div 10) > Pow2Floor(7 * (n \div 10))
    THEN (n * pct) \div 100 - 1
    ELSE (n * pct) \div 100

\* Prices beyond the range of the checker's integers are kept in two decimal
\* limbs: the value is hi * Limb + lo with 0 <= lo < Limb.
Limb == 100000000
LimbDigits == 8
Wide(hi, lo) == [hi |-> hi, lo |-> lo]
WideLess(a, b) == a.hi < b.hi \/ (a.hi = b.hi /\ a.lo < b.lo)
WideAdd(a, k) ==
    IF a.lo + k >= Limb THEN Wide(a.hi + 1, a.lo + k - Limb) ELSE Wide(a.hi, a.lo + k)

\* 2^53 = 9007199254740992: up to it every integer is a double, from it up to
\* 2^54 only the even ones are
TwoTo53 == Wide(90071992, 54740992)

\* the decimal digits of n, padded with zeros to the given width
RECURSIVE PadDigits(_, _)
PadDigits(n, width) ==
    IF width = 0 THEN <<>> ELSE Append(PadDigits(n \div 10, width - 1), n % 10)

\* BigNumber.prototype.toString(): the exact decimal digits
BigNumberToString(v) ==
    IF v.hi = 0 THEN toString(v.lo) ELSE toString(v.hi) \o PadDigits(v.lo, LimbDigits)

\* the integer a string of decimal digits denotes
DigitsValue(s) ==
    IF Len(s) <= LimbDigits THEN Wide(0, parseInt(s))
    ELSE Wide(parseInt(SubSeq(s, 1, Len(s) - LimbDigits)),
              parseInt(SubSeq(s, Len(s) - LimbDigits + 1, Len(s))))

\* the double nearest to an integer below 2^54, ties to the even mantissa
NearestDouble(v) ==
    IF WideLess(v, TwoTo53) \/ v.lo % 2 = 0 THEN v
    ELSE IF v.lo % 4 = 1 THEN Wide(v.hi, v.lo - 1)
    ELSE WideAdd(v, 1)

\* parseInt of a string of decimal digits of any length: a Number
WideParseInt(s) == NearestDouble(DigitsValue(s))

\* Number.prototype.toString() of an integer-valued double below 2^54
NumberToString(d) ==
    IF d.hi = 0 THEN toString(d.lo) ELSE toString(d.hi) \o PadDigits(d.lo, LimbDigits)

Max(a, b) == IF a >= b THEN a ELSE b
Min(a, b) == IF a <= b THEN a ELSE b

\* Array.prototype.sort((a, b) => a - b)
RECURSIVE Insert(_, _)
Insert(s, x) ==
    IF Len(s) = 0 THEN <<x>>
    ELSE IF x < s[Len(s)] THEN Append(Insert(SubSeq(s, 1, Len(s) - 1), x), s[Len(s)])
    ELSE Append(s, x)

\* mutant of SortAsc: the list is left in arrival order
SortAscOmitted(s) == s

RECURSIVE SortAsc(_)
SortAsc(s) ==
    IF Len(s) = 0 THEN <<>>
    ELSE Insert(SortAsc(SubSeq(s, 1, Len(s) - 1)), s[Len(s)])

-----------------------------------------------------------------------------
(* calculateGasPrices: sample extraction, lines 44-68 *)

NoSamples == [gasPrices |-> <<>>, simple |-> <<>>, contract |-> <<>>]

\* mutant of HasPositivePrice: a zero price is admitted
HasPriceNotBelowZero(tx) == tx.gasPrice # NoGasPrice /\ tx.gasPrice >= 0

\* tx.gasPrice && tx.gasPrice.gt(0)
HasPositivePrice(tx) == tx.gasPrice # NoGasPrice /\ tx.gasPrice > 0

\* one iteration of the loop over block.transactions
ExtractTx(acc, tx, blockIndex) ==
    IF HasPositivePrice(tx)
    THEN LET price == parseInt(toString(tx.gasPrice))
         IN [gasPrices |->
                Append(acc.gasPrices,
                       [price |-> price,
                        blockAge |-> blockIndex,
                        isContractCall |-> tx.data # Bare /\ Len(tx.data) > 2]),
             simple |->
                IF tx.data = Bare \/ Len(tx.data) <= 2
                THEN Append(acc.simple, price) ELSE acc.simple,
             contract |->
                IF tx.data = Bare \/ Len(tx.data) <= 2
                THEN acc.contract ELSE Append(acc.contract, price)]
    ELSE acc

\* one iteration of the loop over blocks: if (block && block.transactions)
ExtractBlock(acc, block, blockIndex) ==
    IF block.kind = "block"
    THEN LET txs == block.transactions
             F[k \in 0..Len(txs)] ==
                 IF k = 0 THEN acc ELSE ExtractTx(F[k - 1], txs[k], blockIndex)
         IN F[Len(txs)]
    ELSE acc

\* the loop over blocks, bs a function from 0..n-1 to block values
ExtractWindow(bs, n) ==
    LET F[i \in 0..n] ==
            IF i = 0 THEN NoSamples ELSE ExtractBlock(F[i - 1], bs[i - 1], i - 1)
    IN F[n]

-----------------------------------------------------------------------------
(* calculateGasPrices: congestion-aware tier selection, lines 70-118 *)

HighBand   == [safeLow |-> 10, standard |-> 40, fast |-> 70]
MediumBand == [safeLow |-> 15, standard |-> 45, fast |-> 75]
LowBand    == [safeLow |-> 20, standard |-> 50, fast |-> 80]
Bands == {HighBand, MediumBand, LowBand}

\* mutant of QuotientGreater: the boundary is included
QuotientGreaterOrEqual(num, den, a, b) == num * b >= a * den

\* num / den > a / b for den > 0, b > 0.  The double quotient num / den is
\* correctly rounded, so its comparison with the literals 0.5 and 0.2 agrees
\* with the exact comparison for every price below 2^52.
QuotientGreater(num, den, a, b) == num * b > a * den

\* lines 79-99: band chosen from congestionLevel = priceRange / primaryPrices[0]
CongestionPercentiles(prices) ==
    LET priceRange == prices[Len(prices)] - prices[1]
    IN IF QuotientGreater(priceRange, prices[1], 1, 2) THEN HighBand
       ELSE IF QuotientGreater(priceRange, prices[1], 1, 5) THEN MediumBand
       ELSE LowBand

\* mutant of SafeLowIndex: the clamp at 0 is missing
SafeLowIndexUnclamped(length, band) == MulFloor(length, band.safeLow) - 1

\* lines 101-104
SafeLowIndex(length, band) == Max(0, MulFloor(length, band.safeLow) - 1)
\* mutant of StandardIndex: one position too low
StandardIndexBelow(length, band) == Max(0, MulFloor(length, band.standard) - 1)

StandardIndex(length, band) == MulFloor(length, band.standard)
FastIndex(length, band) == Min(length - 1, MulFloor(length, band.fast))

TierIndices(length, band) ==
    [safeLowIndex  |-> SafeLowIndex(length, band),
     standardIndex |-> StandardIndex(length, band),
     fastIndex     |-> FastIndex(length, band)]

\* mutant of PrimaryPrices: a single contract call is not enough
PrimaryPricesNeedsTwo(samples, contractCallPrices) ==
    IF Len(contractCallPrices) > 1 THEN contractCallPrices
    ELSE SortAsc([k \in 1..Len(samples) |-> samples[k].price])

\* line 77: contract calls when there are any, else all prices sorted
PrimaryPrices(samples, contractCallPrices) ==
    IF Len(contractCallPrices) > 0 THEN contractCallPrices
    ELSE SortAsc([k \in 1..Len(samples) |-> samples[k].price])

\* the catch block of calculateGasPrices, lines 124-127
PassError(message) ==
    [kind |-> "error", message |-> "Failed to calculate gas prices: " \o message]

\* lines 106-118; JavaScript arrays are 0-based, sequences 1-based.  An index
\* outside the array reads undefined, whose toString throws into the catch.
Estimate(prices, idx) ==
    IF \A i \in {idx.safeLowIndex, idx.standardIndex, idx.fastIndex} :
            i \in 0..(Len(prices) - 1)
    THEN [kind     |-> "estimate",
          safeLow  |-> toString(prices[idx.safeLowIndex + 1]),
          standard |-> toString(prices[idx.standardIndex + 1]),
          fast     |-> toString(prices[idx.fastIndex + 1])]
    ELSE PassError("Cannot read properties of undefined (reading 'toString')")

-----------------------------------------------------------------------------
(* calculateFallbackGasPrices, lines 133-150 *)

FallbackEstimate(baseGasPrice) ==
    LET base == parseInt(toString(baseGasPrice))
    IN [kind     |-> "estimate",
        safeLow  |-> toString(MulFloor(base, 70)),
        standard |-> toString(base),
        fast     |-> toString(MulFloor(base, 150))]

-----------------------------------------------------------------------------
(* Responses of the handler, lines 165-196 *)

NoResponse == [status |-> 0]

\* res.status(400).json({...})
BadRequest(n) == [status |-> 400, error |-> "Invalid network parameter", received |-> n]

\* res.json({timestamp, ...gasPrices})
Success(est) ==
    [status |-> 200, timestamp |-> "now",
     safeLow |-> est.safeLow, standard |-> est.standard, fast |-> est.fast]

\* res.status(500).json({...})
ServerError(message) ==
    [status |-> 500, error |-> "Internal server error", details |-> message]

\* the catch block of calculateFallbackGasPrices, lines 151-154
FallbackError(message) == "Fallback calculation failed: " \o message

\* a provider can reach a source only through one of the configured URLs
Reachable(p) == p # NoProvider /\ \E k \in DOMAIN NETWORKS : p.rpcUrl = NETWORKS[k]

-----------------------------------------------------------------------------
(* The request handler and the estimation pass *)

Init ==
    /\ pc = "idle"
    /\ network = Undefined
    /\ provider = NoProvider
    /\ calls = <<>>
    /\ latestBlockNumber = -1
    /\ fetch = [i \in Window |-> "unissued"]
    /\ blocks = [i \in Window |-> NotSettled]
    /\ gasPrices = <<>>
    /\ transactionTypes = [simple |-> <<>>, contract |-> <<>>]
    /\ primaryPrices = <<>>
    /\ percentiles = None
    /\ indices = None
    /\ path = "none"
    /\ basePrice = -1
    /\ result = None
    /\ response = NoResponse
    /\ arg = None
    /\ out = None
    /\ passes = NoPasses
    /\ ui = NoApp

\* createProvider, lines 21-27: it throws when the URL is falsy,
\* else returns new JsonRpcProvider(rpcUrl)
createProviderThrows(n) == ~Truthy(NetworksLookup(n))
createProvider(n) == [rpcUrl |-> NetworksLookup(n)]

\* lines 165-178 and 33-35: the handler up to its first await
Request(n) ==
    /\ pc = "idle"
    /\ network' = n
    /\ IF ~Truthy(NetworksLookup(n))
       THEN /\ response' = BadRequest(n)
            /\ pc' = "done"
            /\ UNCHANGED <<provider, calls>>
       ELSE IF createProviderThrows(n)
       THEN /\ response' = ServerError("Unsupported network: " \o n)
            /\ pc' = "done"
            /\ UNCHANGED <<provider, calls>>
       ELSE /\ provider' = createProvider(n)
            /\ calls' = Append(calls, [op |-> "getBlockNumber", number |-> -1])
            /\ pc' = "getBlockNumber"
            /\ UNCHANGED response
    /\ UNCHANGED <<latestBlockNumber, fetch, blocks, gasPrices, transactionTypes,
                   primaryPrices, percentiles, indices, path, basePrice, result,
                   arg, out, passes, ui>>

\* the pass throws: catch of calculateGasPrices, then catch of the handler
Abort(message) ==
    /\ result' = PassError(message)
    /\ response' = ServerError(PassError(message).message)
    /\ pc' = "done"

\* mutant of GetBlockNumberResolves: the window starts one block too low
GetBlockNumberResolvesShifted(h) ==
    /\ pc = "getBlockNumber"
    /\ Reachable(provider)
    /\ latestBlockNumber' = h
    /\ calls' = calls \o [k \in 1..BLOCKS_TO_ANALYZE |->
                            [op |-> "getBlockWithTransactions", number |-> h - k]]
    /\ fetch' = [i \in Window |-> "pending"]
    /\ pc' = "awaitAll"
    /\ UNCHANGED <<network, provider, blocks, gasPrices, transactionTypes,
                   primaryPrices, percentiles, indices, path, basePrice, result,
                   response, arg, out, passes, ui>>

\* lines 35-43: getBlockNumber resolves; every block of the window is requested
GetBlockNumberResolves(h) ==
    /\ pc = "getBlockNumber"
    /\ Reachable(provider)
    /\ latestBlockNumber' = h
    /\ calls' = calls \o [k \in 1..BLOCKS_TO_ANALYZE |->
                            [op |-> "getBlockWithTransactions", number |-> h - (k - 1)]]
    /\ fetch' = [i \in Window |-> "pending"]
    /\ pc' = "awaitAll"
    /\ UNCHANGED <<network, provider, blocks, gasPrices, transactionTypes,
                   primaryPrices, percentiles, indices, path, basePrice, result,
                   response, arg, out, passes, ui>>

\* line 35 throws
GetBlockNumberRejects ==
    /\ pc = "getBlockNumber"
    /\ Abort("getBlockNumber failed")
    /\ UNCHANGED <<network, provider, calls, latestBlockNumber, fetch, blocks,
                   gasPrices, transactionTypes, primaryPrices, percentiles,
                   indices, path, basePrice, arg, out, passes, ui>>

\* lines 44-122 up to the return or the call of the fallback: the locals of
\* calculateGasPrices computed from the resolved blocks bs (n of them)
Calculate(bs, n) ==
    LET ex == ExtractWindow(bs, n)
    IN IF Len(ex.gasPrices) > 0
       THEN LET simpleTransferPrices == SortAsc(ex.simple)
                contractCallPrices == SortAsc(ex.contract)
                prices == PrimaryPrices(ex.gasPrices, contractCallPrices)
                band == CongestionPercentiles(prices)
                idx == TierIndices(Len(prices), band)
            IN [gasPrices |-> ex.gasPrices,
                transactionTypes |-> [simple |-> simpleTransferPrices,
                                      contract |-> contractCallPrices],
                primaryPrices |-> prices,
                percentiles |-> band,
                indices |-> idx,
                path |-> "samples",
                result |-> Estimate(prices, idx)]
       ELSE [gasPrices |-> ex.gasPrices,
             transactionTypes |-> [simple |-> ex.simple, contract |-> ex.contract],
             primaryPrices |-> <<>>,
             percentiles |-> None,
             indices |-> None,
             path |-> "fallback",
             result |-> None]

\* lines 70-122 after the locals c are computed: return the estimate to the
\* handler, which responds (lines 180-185), or call the fallback (line 121)
Deliver(c) ==
    /\ gasPrices' = c.gasPrices
    /\ transactionTypes' = c.transactionTypes
    /\ primaryPrices' = c.primaryPrices
    /\ percentiles' = c.percentiles
    /\ indices' = c.indices
    /\ path' = c.path
    /\ IF c.path = "samples"
       THEN /\ result' = c.result
            /\ response' = IF c.result.kind = "error"
                           THEN ServerError(c.result.message)
                           ELSE Success(c.result)
            /\ pc' = "done"
            /\ UNCHANGED calls
       ELSE /\ calls' = Append(calls, [op |-> "getGasPrice", number |-> -1])
            /\ pc' = "getGasPrice"
            /\ UNCHANGED <<result, response>>

\* mutant of Continue: a window without samples is an error
ContinueZeroSampleError(bs) ==
    LET c == Calculate(bs, BLOCKS_TO_ANALYZE)
    IN IF c.path = "samples"
       THEN Deliver(c)
       ELSE /\ Abort("No valid transactions found")
            /\ UNCHANGED <<calls, gasPrices, transactionTypes, primaryPrices,
                           percentiles, indices, path>>

\* mutant of Continue: a null block or a block without transactions throws
ContinueStrict(bs) ==
    IF \E i \in Window : bs[i].kind # "block"
    THEN /\ Abort("Malformed block")
         /\ UNCHANGED <<calls, gasPrices, transactionTypes, primaryPrices,
                        percentiles, indices, path>>
    ELSE Deliver(Calculate(bs, BLOCKS_TO_ANALYZE))

\* the continuation of line 43, run once Promise.all has resolved with bs
Continue(bs) == Deliver(Calculate(bs, BLOCKS_TO_ANALYZE))

\* mutant of BlockFetchRejects: the rejection does not reach the pass
BlockFetchRejectsUnnoticed(i) ==
    /\ fetch[i] = "pending"
    /\ fetch' = [fetch EXCEPT ![i] = "failed"]
    /\ UNCHANGED <<pc, result, response, network, provider, calls,
                   latestBlockNumber, blocks, gasPrices, transactionTypes,
                   primaryPrices, percentiles, indices, path, basePrice, arg, out, passes, ui>>

\* one block fetch resolves with block b; Promise.all (line 43) resolves when
\* it was the last one outstanding and none was rejected
BlockFetchResolves(i, b) ==
    /\ fetch[i] = "pending"
    /\ fetch' = [fetch EXCEPT ![i] = "ok"]
    /\ blocks' = [blocks EXCEPT ![i] = b]
    /\ IF pc = "awaitAll" /\ \A j \in Window : fetch'[j] = "ok"
       THEN Continue(blocks')
       ELSE UNCHANGED <<pc, calls, gasPrices, transactionTypes, primaryPrices,
                        percentiles, indices, path, result, response>>
    /\ UNCHANGED <<network, provider, latestBlockNumber, basePrice, arg, out, passes, ui>>

\* one block fetch is rejected; Promise.all rejects with the first rejection
BlockFetchRejects(i) ==
    /\ fetch[i] = "pending"
    /\ fetch' = [fetch EXCEPT ![i] = "failed"]
    /\ IF pc = "awaitAll"
       THEN Abort("getBlockWithTransactions failed")
       ELSE UNCHANGED <<pc, result, response>>
    /\ UNCHANGED <<network, provider, calls, latestBlockNumber, blocks, gasPrices,
                   transactionTypes, primaryPrices, percentiles, indices, path,
                   basePrice, arg, out, passes, ui>>

\* lines 135-150 and 180-185: getGasPrice resolves with b
GasPriceResolves(b) ==
    /\ pc = "getGasPrice"
    /\ basePrice' = parseInt(toString(b))
    /\ result' = FallbackEstimate(b)
    /\ response' = Success(FallbackEstimate(b))
    /\ pc' = "done"
    /\ UNCHANGED <<network, provider, calls, latestBlockNumber, fetch, blocks,
                   gasPrices, transactionTypes, primaryPrices, percentiles,
                   indices, path, arg, out, passes, ui>>

\* line 135 throws
GasPriceRejects ==
    /\ pc = "getGasPrice"
    /\ Abort(FallbackError("getGasPrice failed"))
    /\ UNCHANGED <<network, provider, calls, latestBlockNumber, fetch, blocks,
                   gasPrices, transactionTypes, primaryPrices, percentiles,
                   indices, path, basePrice, arg, out, passes, ui>>

Next ==
    \/ \E n \in NetworkIds : Request(n)
    \/ \E h \in Heights : GetBlockNumberResolves(h)
    \/ GetBlockNumberRejects
    \/ \E i \in Window, b \in BlockValues : BlockFetchResolves(i, b)
    \/ \E i \in Window : BlockFetchRejects(i)
    \/ \E b \in BasePrices : GasPriceResolves(b)
    \/ GasPriceRejects

Spec == Init /\ [][Next]_vars

\* every call to the source that is under way completes or fails
Completes ==
    \/ \E h \in Heights : GetBlockNumberResolves(h)
    \/ GetBlockNumberRejects
    \/ \E i \in Window, b \in BlockValues : BlockFetchResolves(i, b)
    \/ \E i \in Window : BlockFetchRejects(i)
    \/ \E b \in BasePrices : GasPriceResolves(b)
    \/ GasPriceRejects

LiveSpec == Spec /\ WF_vars(Completes)

-----------------------------------------------------------------------------
(* The simpler fixed-percentile variant of calculateGasPrices,              *)
(* src/frontend/src/App.tsx lines 298-379                                   *)

\* lines 317-328: the decimal strings of the prices present and above zero
SimpleGasPrices(bs, n) ==
    LET OfBlock(acc, block) ==
            IF block.kind = "block"
            THEN LET txs == block.transactions
                     F[k \in 0..Len(txs)] ==
                         IF k = 0 THEN acc
                         ELSE IF HasPositivePrice(txs[k])
                              THEN Append(F[k - 1], toString(txs[k].gasPrice))
                              ELSE F[k - 1]
                 IN F[Len(txs)]
            ELSE acc
        G[i \in 0..n] == IF i = 0 THEN <<>> ELSE OfBlock(G[i - 1], bs[i - 1])
    IN G[n]

\* r < m * (a / b) for b > 0.  The double product m * 0.1 is m / 10 exactly
\* when that is an integer and lies strictly between the neighbouring
\* integers otherwise, so the comparison with an integer r is the exact one.
LessThanFraction(r, m, a, b) == r * b < m * a

\* lines 331-373
SimpleCalculate(bs, n) ==
    LET gasPriceStrings == SimpleGasPrices(bs, n)
    IN IF Len(gasPriceStrings) > 0
       THEN LET sortedGasPrices ==
                    SortAsc([k \in 1..Len(gasPriceStrings) |->
                                parseInt(gasPriceStrings[k])])
                length == Len(sortedGasPrices)
                safeLowIndex == Max(0, MulFloor(length, 20) - 1)
                standardIndex == MulFloor(length, 50)
                fastIndex == Min(length - 1, MulFloor(length, 80))
                safeLow == sortedGasPrices[safeLowIndex + 1]
                standard == sortedGasPrices[standardIndex + 1]
                fast == sortedGasPrices[fastIndex + 1]
                minPrice == sortedGasPrices[1]
                maxPrice == sortedGasPrices[length]
            IN IF LessThanFraction(maxPrice - minPrice, minPrice, 1, 10)
               THEN [path |-> "samples",
                     result |-> [kind |-> "estimate",
                                 safeLow |-> toString(MulFloor(standard, 80)),
                                 standard |-> toString(standard),
                                 fast |-> toString(MulFloor(standard, 120))]]
               ELSE [path |-> "samples",
                     result |-> [kind |-> "estimate",
                                 safeLow |-> toString(safeLow),
                                 standard |-> toString(standard),
                                 fast |-> toString(fast)]]
       ELSE [path |-> "fallback", result |-> None]

-----------------------------------------------------------------------------
(* Stand-alone evaluation of the pure parts of calculateGasPrices *)

\* ascending price sequences of one or two elements
AscendingPrices ==
    { <<a>> : a \in 1..MaxPrice }
    \cup UNION { { <<a, b>> : b \in a..MaxPrice } : a \in 1..MaxPrice }

\* windows on which the two variants are compared
VariantTxValues ==
    { [gasPrice |-> 10, data |-> Bare],
      [gasPrice |-> 11, data |-> Bare],
      [gasPrice |-> 12, data |-> Bare],
      [gasPrice |-> 13, data |-> Bare],
      [gasPrice |-> 10, data |-> CallData],
      [gasPrice |-> 12, data |-> CallData] }
VariantBlocks ==
    { [kind |-> "block", transactions |-> t] :
        t \in {<<>>} \cup { <<x>> : x \in VariantTxValues }
                     \cup { <<x, y>> : x \in VariantTxValues, y \in VariantTxValues } }

\* prices around 1, 2^32, 2^53 and a limb boundary above 2^53
WideBases ==
    { Wide(0, 1), Wide(42, 94967296), WideAdd(TwoTo53, -4), Wide(90071993, Limb - 8) }
WidePrices == { WideAdd(b, k) : b \in WideBases, k \in 0..MaxOffset }

CalcInputs ==
    { [kind |-> "indices", length |-> n, band |-> b, prices |-> <<>>] :
        n \in 1..MaxLength, b \in Bands }
    \cup { [kind |-> "band", length |-> 0, band |-> None, prices |-> p] :
        p \in AscendingPrices }
    \cup { [kind |-> "variants", window |-> w] : w \in [Window -> VariantBlocks] }
    \cup { [kind |-> "wide", price |-> v] : v \in WidePrices }

InitCalc ==
    /\ pc = "idle"
    /\ network = Undefined
    /\ provider = NoProvider
    /\ calls = <<>>
    /\ latestBlockNumber = -1
    /\ fetch = [i \in Window |-> "unissued"]
    /\ blocks = [i \in Window |-> NotSettled]
    /\ gasPrices = <<>>
    /\ transactionTypes = [simple |-> <<>>, contract |-> <<>>]
    /\ primaryPrices = <<>>
    /\ percentiles = None
    /\ indices = None
    /\ path = "none"
    /\ basePrice = -1
    /\ result = None
    /\ response = NoResponse
    /\ arg \in CalcInputs
    /\ out = None
    /\ passes = NoPasses
    /\ ui = NoApp

\* lines 101-104 on a sequence of arg.length prices
ComputeIndices ==
    /\ arg.kind = "indices"
    /\ out = None
    /\ out' = TierIndices(arg.length, arg.band)
    /\ UNCHANGED <<passVars, arg, passes, ui>>

\* lines 79-99 on the reference sequence arg.prices
ComputeBand ==
    /\ arg.kind = "band"
    /\ out = None
    /\ out' = CongestionPercentiles(arg.prices)
    /\ UNCHANGED <<passVars, arg, passes, ui>>

\* both variants of calculateGasPrices on the window arg.window
ComputeVariants ==
    /\ arg.kind = "variants"
    /\ out = None
    /\ out' = [adaptive |-> Calculate(arg.window, BLOCKS_TO_ANALYZE),
               simple |-> SimpleCalculate(arg.window, BLOCKS_TO_ANALYZE)]
    /\ UNCHANGED <<passVars, arg, passes, ui>>

\* A price on its way from the chain to the response: lines 52 and 112-114
\* for the one sample of a one-transaction window (every index is 0), lines
\* 136 and 141 for the base price as the fallback's standard tier.
ConvertWide ==
    /\ arg.kind = "wide"
    /\ out = None
    /\ out' = [text |-> NumberToString(WideParseInt(BigNumberToString(arg.price)))]
    /\ UNCHANGED <<passVars, arg, passes, ui>>

NextCalc == ComputeIndices \/ ComputeBand \/ ComputeVariants \/ ConvertWide

SpecCalc == InitCalc /\ [][NextCalc]_vars

-----------------------------------------------------------------------------
(* Properties *)

Num(str) == parseInt(str)

\* C1: every non-error result of a pass, from the samples or from the
\* fallback, has safeLow <= standard <= fast.
C1_TiersOrdered ==
    result.kind = "estimate" =>
        /\ Num(result.safeLow) <= Num(result.standard)
        /\ Num(result.standard) <= Num(result.fast)

\* a pass over samples whose tiers differ, chosen from an unsorted arrival
C1_Witness ==
    /\ path = "samples"
    /\ result.kind = "estimate"
    /\ Num(result.safeLow) < Num(result.fast)
    /\ \E i \in Window :
          /\ Len(blocks[i].transactions) = 2
          /\ blocks[i].transactions[1].gasPrice > blocks[i].transactions[2].gasPrice
          /\ blocks[i].transactions[2].gasPrice > 0

\* C2: for every length n >= 1 and every band the indices satisfy
\* 0 <= safeLowIndex <= standardIndex <= fastIndex <= n - 1, and for n = 1
\* all three are 0.
C2_IndicesInRange ==
    (arg.kind = "indices" /\ out # None) =>
        /\ 0 <= out.safeLowIndex
        /\ out.safeLowIndex <= out.standardIndex
        /\ out.standardIndex <= out.fastIndex
        /\ out.fastIndex <= arg.length - 1
        /\ (arg.length = 1 =>
               out.safeLowIndex = 0 /\ out.standardIndex = 0 /\ out.fastIndex = 0)

\* a length at which the clamp of safeLowIndex acts and the tiers still differ
C2_Witness ==
    /\ arg.kind = "indices"
    /\ out # None
    /\ arg.length * arg.band.safeLow < 100
    /\ out.safeLowIndex = 0
    /\ out.standardIndex < out.fastIndex
    /\ out.fastIndex = arg.length - 1

-----------------------------------------------------------------------------
(* The fetched window, described from the resolved blocks alone *)

\* positions of the transactions of the blocks that carry a transaction list
WindowTxs ==
    UNION { { <<i, k>> : k \in 1..Len(blocks[i].transactions) } :
              i \in { j \in Window : blocks[j].kind = "block" } }

TxAt(p) == blocks[p[1]].transactions[p[2]]

\* transactions whose price is present and strictly greater than zero
Priced == { p \in WindowTxs : TxAt(p).gasPrice # NoGasPrice /\ TxAt(p).gasPrice > 0 }

\* the payload is non-empty beyond the bare-transfer marker "0x"
BeyondBare(tx) == Len(tx.data) > 2

PricedCalls == { p \in Priced : BeyondBare(TxAt(p)) }
PricedTransfers == { p \in Priced : ~BeyondBare(TxAt(p)) }

Occurrences(seq, v) == Cardinality({ k \in 1..Len(seq) : seq[k] = v })
IsAscending(seq) == \A k \in 1..(Len(seq) - 1) : seq[k] <= seq[k + 1]
PriceValues == { t.gasPrice : t \in TxValues }

\* seq holds exactly the prices of the transactions at the positions P
HoldsPricesOf(seq, P) ==
    /\ Len(seq) = Cardinality(P)
    /\ \A v \in PriceValues :
          Occurrences(seq, v) = Cardinality({ p \in P : TxAt(p).gasPrice = v })

AllFetched == \A i \in Window : fetch[i] = "ok"
BaseQueryIssued == \E k \in 1..Len(calls) : calls[k].op = "getGasPrice"
BaseQueryFailure ==
    "Failed to calculate gas prices: Fallback calculation failed: getGasPrice failed"

\* C3: when one block fetch of a pass fails, the pass ends with an error: no
\* estimate is returned, whatever the other fetches resolved to and in
\* whatever order, and the base-price query is not issued.
C3_FailedFetchAborts ==
    (\E i \in Window : fetch[i] = "failed") =>
        /\ pc = "done"
        /\ result.kind = "error"
        /\ response.status = 500
        /\ path = "none"
        /\ ~BaseQueryIssued

\* one fetch failed while another delivered a block with a priced transaction
C3_Witness ==
    \E i \in Window, j \in Window :
        /\ fetch[i] = "failed"
        /\ fetch[j] = "ok"
        /\ \E p \in Priced : p[1] = j

\* C4: when every block fetch succeeded and the window holds no sample, the
\* pass takes the fallback and its outcome is the fallback's (an estimate, or
\* the failure of the base-price query), never an error for the missing
\* samples; the fallback is taken in no other case.
C4_FallbackIffNoSamples ==
    /\ (AllFetched /\ Priced = {}) =>
          /\ path = "fallback"
          /\ BaseQueryIssued
          /\ pc \in {"getGasPrice", "done"}
          /\ (pc = "done" =>
                 \/ result.kind = "estimate"
                 \/ result.kind = "error" /\ result.message = BaseQueryFailure)
    /\ (path = "fallback" \/ BaseQueryIssued) => (AllFetched /\ Priced = {})

\* every block exists and has zero transactions; the fallback estimate is out
C4_Witness ==
    /\ \A i \in Window : blocks[i] = [kind |-> "block", transactions |-> <<>>]
    /\ path = "fallback"
    /\ result.kind = "estimate"
    /\ response.status = 200

\* C5: the band follows the congestion ratio c = (maxP - minP) / minP:
\* c > 0.5 gives 0.10/0.40/0.70, 0.2 < c <= 0.5 gives 0.15/0.45/0.75 and
\* c <= 0.2 gives 0.20/0.50/0.80.
C5_BandByRatio ==
    (arg.kind = "band" /\ out # None) =>
        LET minP == arg.prices[1]
            maxP == arg.prices[Len(arg.prices)]
            c100 == 100 * (maxP - minP)     \* c = c100 / (100 * minP)
        IN /\ c100 > 50 * minP =>
                 out = [safeLow |-> 10, standard |-> 40, fast |-> 70]
           /\ (c100 > 20 * minP /\ c100 <= 50 * minP) =>
                 out = [safeLow |-> 15, standard |-> 45, fast |-> 75]
           /\ c100 <= 20 * minP =>
                 out = [safeLow |-> 20, standard |-> 50, fast |-> 80]

\* a reference sequence whose ratio is exactly 0.5 got the medium band
C5_Witness ==
    /\ arg.kind = "band"
    /\ Len(arg.prices) = 2
    /\ 2 * (arg.prices[2] - arg.prices[1]) = arg.prices[1]
    /\ out = [safeLow |-> 15, standard |-> 45, fast |-> 75]

\* C6: the reference sequence is the ascending list of the contract-call
\* prices whenever the window holds a contract-call sample, and the ascending
\* list of all sample prices only when it holds none; with a single
\* contract-call sample all three tiers equal its price.
C6_ReferenceSequence ==
    path = "samples" =>
        /\ IsAscending(primaryPrices)
        /\ IF PricedCalls # {}
           THEN HoldsPricesOf(primaryPrices, PricedCalls)
           ELSE HoldsPricesOf(primaryPrices, Priced)
        /\ \A p \in PricedCalls :
              Cardinality(PricedCalls) = 1 =>
                  /\ Num(result.safeLow) = TxAt(p).gasPrice
                  /\ Num(result.standard) = TxAt(p).gasPrice
                  /\ Num(result.fast) = TxAt(p).gasPrice

\* one contract call at 100 among three transfers at 10: all tiers are 100
C6_Witness ==
    /\ path = "samples"
    /\ Cardinality(PricedCalls) = 1
    /\ Cardinality({ p \in PricedTransfers : TxAt(p).gasPrice = 10 }) >= 3
    /\ result.kind = "estimate"
    /\ Num(result.safeLow) = 100
    /\ Num(result.fast) = 100

\* C7: on the fallback with base price b the estimate is safeLow =
\* floor(b * 0.7), standard = b, fast = floor(b * 1.5), and the fallback
\* fails only when the base-price query fails.
C7_FallbackFormula ==
    path = "fallback" =>
        /\ result.kind = "estimate" =>
              /\ Num(result.safeLow) = (7 * basePrice) \div 10
              /\ Num(result.standard) = basePrice
              /\ Num(result.fast) = (3 * basePrice) \div 2
        /\ result.kind = "error" => result.message = BaseQueryFailure

\* C8: after extraction simpleTransfers and contractCalls together hold
\* exactly the prices of the transactions with a price present and above
\* zero, each in contractCalls iff its payload goes beyond the bare-transfer
\* marker, and both lists are ascending.
C8_Partition ==
    path # "none" =>
        /\ HoldsPricesOf(transactionTypes.contract, PricedCalls)
        /\ HoldsPricesOf(transactionTypes.simple, PricedTransfers)
        /\ Len(transactionTypes.simple) + Len(transactionTypes.contract)
              = Cardinality(Priced)
        /\ IsAscending(transactionTypes.simple)
        /\ IsAscending(transactionTypes.contract)

\* both lists filled, the calls arrived in descending order, and the window
\* held a transaction without a positive price
C8_Witness ==
    /\ path = "samples"
    /\ Len(transactionTypes.simple) >= 1
    /\ transactionTypes.contract = <<10, 100>>
    /\ \E i \in Window :
          /\ Len(blocks[i].transactions) = 2
          /\ blocks[i].transactions[1].gasPrice = 100
          /\ blocks[i].transactions[2].gasPrice = 10
    /\ \E p \in WindowTxs : p \notin Priced

Malformed(b) == b.kind \in {"null", "noTransactions"}

C10_UnknownNetworkRejected ==
    (network # Undefined /\ network \notin {"mainnet", "testnet"}) =>
        /\ provider = NoProvider
        /\ calls = <<>>
        /\ response.status = 400

-----------------------------------------------------------------------------
(* Calls of one pass *)

CallsOf(op) == { k \in 1..Len(calls) : calls[k].op = op }

\* C11: a pass calls the source for the height once, then requests each of
\* the numbers H, H-1, ..., H-W+1 exactly once and none outside the window,
\* all of them before any block result arrives, and issues at most one
\* base-price call, only after every block fetch succeeded; no call is issued
\* a second time.
C11_CallSequence ==
    /\ Cardinality(CallsOf("getBlockNumber")) = (IF provider = NoProvider THEN 0 ELSE 1)
    /\ calls # <<>> => calls[1].op = "getBlockNumber"
    /\ latestBlockNumber = -1 => CallsOf("getBlockWithTransactions") = {}
    /\ latestBlockNumber # -1 =>
          /\ \A m \in (latestBlockNumber - BLOCKS_TO_ANALYZE + 1)..latestBlockNumber :
                Cardinality({ k \in CallsOf("getBlockWithTransactions") :
                                calls[k].number = m }) = 1
          /\ \A k \in CallsOf("getBlockWithTransactions") :
                /\ calls[k].number <= latestBlockNumber
                /\ calls[k].number > latestBlockNumber - BLOCKS_TO_ANALYZE
                /\ k \in 2..(BLOCKS_TO_ANALYZE + 1)
    /\ (\E i \in Window : fetch[i] # "unissued") =>
          Cardinality(CallsOf("getBlockWithTransactions")) = BLOCKS_TO_ANALYZE
    /\ Cardinality(CallsOf("getGasPrice")) <= 1
    /\ CallsOf("getGasPrice") # {} =>
          /\ AllFetched
          /\ calls[Len(calls)].op = "getGasPrice"
    /\ Len(calls) <= BLOCKS_TO_ANALYZE + 2

\* a pass that made every call it can make, the last of which failed
C11_Witness ==
    /\ Len(calls) = BLOCKS_TO_ANALYZE + 2
    /\ result.kind = "error"
    /\ result.message = BaseQueryFailure

-----------------------------------------------------------------------------
(* Several requests handled concurrently: each call of the handler and of   *)
(* calculateGasPrices has its own locals (provider, blockPromises, blocks,  *)
(* gasPrices, transactionTypes); the module-level bindings NETWORKS and     *)
(* BLOCKS_TO_ANALYZE are never assigned.                                    *)

\* what the source may answer to the concurrent passes
ParBlockValues ==
    { [kind |-> "null", transactions |-> <<>>],
      [kind |-> "block", transactions |-> <<>>],
      [kind |-> "block", transactions |-> << [gasPrice |-> 10, data |-> Bare] >>],
      [kind |-> "block", transactions |-> << [gasPrice |-> 100, data |-> CallData],
                                             [gasPrice |-> 10, data |-> CallData] >>] }
ParBasePrices == {90, 100}

InitPar == Init

\* mutant of PassWindow: gasPrices and transactionTypes are module-level
\* arrays, so a pass also finds the blocks' samples of the passes before it
PassWindowShared(p, bs) ==
    LET done == { q \in PassIds \ {p} : passes[q].path # "none" }
    IN IF done = {} THEN [blocks |-> bs, n |-> BLOCKS_TO_ANALYZE]
       ELSE LET q == CHOOSE x \in done : TRUE
            IN [blocks |-> [i \in 0..(2 * BLOCKS_TO_ANALYZE - 1) |->
                              IF i < BLOCKS_TO_ANALYZE THEN passes[q].blocks[i]
                              ELSE bs[i - BLOCKS_TO_ANALYZE]],
                n |-> 2 * BLOCKS_TO_ANALYZE]

\* lines 43-45: a pass extracts from its own blocks into fresh lists
PassWindow(p, bs) == [blocks |-> bs, n |-> BLOCKS_TO_ANALYZE]

\* lines 165-178 and 33-35 for a configured network
ParRequest(p, n) ==
    /\ passes[p].pc = "idle"
    /\ Truthy(NetworksLookup(n))
    /\ passes' = [passes EXCEPT ![p].network = n, ![p].pc = "getBlockNumber"]
    /\ UNCHANGED <<passVars, arg, out, ui>>

\* lines 35-43
ParGetBlockNumberResolves(p) ==
    /\ passes[p].pc = "getBlockNumber"
    /\ passes' = [passes EXCEPT ![p].height = "ok",
                                ![p].fetch = [i \in Window |-> "pending"],
                                ![p].pc = "awaitAll"]
    /\ UNCHANGED <<passVars, arg, out, ui>>

\* line 35 throws
ParGetBlockNumberRejects(p) ==
    /\ passes[p].pc = "getBlockNumber"
    /\ passes' = [passes EXCEPT ![p].height = "failed",
                                ![p].result = PassError("getBlockNumber failed"),
                                ![p].pc = "done"]
    /\ UNCHANGED <<passVars, arg, out, ui>>

\* a block fetch of pass p resolves; lines 43-122 run when it was the last
ParBlockFetchResolves(p, i, b) ==
    /\ passes[p].fetch[i] = "pending"
    /\ LET f == [passes[p].fetch EXCEPT ![i] = "ok"]
           bs == [passes[p].blocks EXCEPT ![i] = b]
           w == PassWindow(p, bs)
           c == Calculate(w.blocks, w.n)
       IN IF passes[p].pc = "awaitAll" /\ \A j \in Window : f[j] = "ok"
          THEN IF c.path = "samples"
               THEN passes' = [passes EXCEPT ![p].fetch = f, ![p].blocks = bs,
                                             ![p].path = "samples",
                                             ![p].result = c.result,
                                             ![p].pc = "done"]
               ELSE passes' = [passes EXCEPT ![p].fetch = f, ![p].blocks = bs,
                                             ![p].path = "fallback",
                                             ![p].pc = "getGasPrice"]
          ELSE passes' = [passes EXCEPT ![p].fetch = f, ![p].blocks = bs]
    /\ UNCHANGED <<passVars, arg, out, ui>>

\* a block fetch of pass p is rejected
ParBlockFetchRejects(p, i) ==
    /\ passes[p].fetch[i] = "pending"
    /\ IF passes[p].pc = "awaitAll"
       THEN passes' = [passes EXCEPT ![p].fetch[i] = "failed",
                                     ![p].result = PassError("getBlockWithTransactions failed"),
                                     ![p].pc = "done"]
       ELSE passes' = [passes EXCEPT ![p].fetch[i] = "failed"]
    /\ UNCHANGED <<passVars, arg, out, ui>>

\* lines 135-150
ParGasPriceResolves(p, b) ==
    /\ passes[p].pc = "getGasPrice"
    /\ passes' = [passes EXCEPT ![p].base = "ok",
                                ![p].basePrice = b,
                                ![p].result = FallbackEstimate(b),
                                ![p].pc = "done"]
    /\ UNCHANGED <<passVars, arg, out, ui>>

\* line 135 throws
ParGasPriceRejects(p) ==
    /\ passes[p].pc = "getGasPrice"
    /\ passes' = [passes EXCEPT ![p].base = "failed",
                                ![p].result = PassError(FallbackError("getGasPrice failed")),
                                ![p].pc = "done"]
    /\ UNCHANGED <<passVars, arg, out, ui>>

NextPar ==
    \/ \E p \in PassIds, n \in DOMAIN NETWORKS : ParRequest(p, n)
    \/ \E p \in PassIds : ParGetBlockNumberResolves(p)
    \/ \E p \in PassIds : ParGetBlockNumberRejects(p)
    \/ \E p \in PassIds, i \in Window, b \in ParBlockValues : ParBlockFetchResolves(p, i, b)
    \/ \E p \in PassIds, i \in Window : ParBlockFetchRejects(p, i)
    \/ \E p \in PassIds, b \in ParBasePrices : ParGasPriceResolves(p, b)
    \/ \E p \in PassIds : ParGasPriceRejects(p)

SpecPar == InitPar /\ [][NextPar]_vars

\* the result of a pass running alone against the answers pass p received
Alone(p) ==
    LET q == passes[p]
        c == Calculate(q.blocks, BLOCKS_TO_ANALYZE)
    IN IF q.height = "failed" THEN PassError("getBlockNumber failed")
       ELSE IF \E i \in Window : q.fetch[i] = "failed"
       THEN PassError("getBlockWithTransactions failed")
       ELSE IF c.path = "samples" THEN c.result
       ELSE IF q.base = "failed" THEN PassError(FallbackError("getGasPrice failed"))
       ELSE FallbackEstimate(q.basePrice)

\* C12: concurrent passes share no mutable state: under every interleaving
\* of their steps the result of each finished pass is the one it produces
\* alone against the answers it received.
C12_PassesIndependent ==
    \A p \in PassIds : passes[p].pc = "done" => passes[p].result = Alone(p)

\* two finished passes for the same network that returned different
\* estimates from their samples
C12_Witness ==
    /\ passes[1].pc = "done" /\ passes[2].pc = "done"
    /\ passes[1].network = passes[2].network
    /\ passes[1].path = "samples" /\ passes[2].path = "samples"
    /\ passes[1].result # passes[2].result

-----------------------------------------------------------------------------
(* The two variants *)

\* the adaptive variant took the sample path and measured a ratio <= 0.2
LowCongestion ==
    /\ arg.kind = "variants"
    /\ out # None
    /\ out.adaptive.path = "samples"
    /\ LET ref == out.adaptive.primaryPrices
       IN 5 * (ref[Len(ref)] - ref[1]) <= ref[1]

\* C13 as stated: for every window whose congestion ratio is <= 0.2 the
\* adaptive variant uses the 20/50/80 split and returns the estimate the
\* simpler variant returns for that window.
C13_SameAsSimpler ==
    LowCongestion =>
        /\ out.adaptive.percentiles = [safeLow |-> 20, standard |-> 50, fast |-> 80]
        /\ out.adaptive.result = out.simple.result

\* C13 amended: for every window whose congestion ratio is <= 0.2 the
\* adaptive variant uses the 20/50/80 split on its reference sequence, and it
\* returns the estimate of the simpler variant when moreover the samples are
\* all contract calls or all simple transfers and maxP - minP >= 0.1 * minP.
C13_ReducesToFixedSplit ==
    LowCongestion =>
        LET a == out.adaptive
            ref == a.primaryPrices
        IN /\ a.percentiles = [safeLow |-> 20, standard |-> 50, fast |-> 80]
           /\ ( /\ (a.transactionTypes.simple = <<>> \/ a.transactionTypes.contract = <<>>)
                /\ 10 * (ref[Len(ref)] - ref[1]) >= ref[1] )
              => a.result = out.simple.result

\* transfers only, ratio 0.2, tiers that differ, and both variants agree
C13_Witness ==
    /\ LowCongestion
    /\ out.adaptive.transactionTypes.contract = <<>>
    /\ 5 * (out.adaptive.primaryPrices[Len(out.adaptive.primaryPrices)]
            - out.adaptive.primaryPrices[1]) = out.adaptive.primaryPrices[1]
    /\ out.adaptive.result.safeLow # out.adaptive.result.fast
    /\ out.adaptive.result = out.simple.result

-----------------------------------------------------------------------------
(* Precision *)

\* C14 as stated: a returned tier is exactly the input price it was taken
\* from (sample path) and the fallback's standard is exactly the base price,
\* for prices of any magnitude, beyond 32 bits and beyond 2^53 included.
C14_NoPrecisionLoss ==
    (arg.kind = "wide" /\ out # None) => out.text = BigNumberToString(arg.price)

-----------------------------------------------------------------------------
(* The page, src/frontend/src/App.tsx lines 11-53 and the card of           *)
(* src/frontend/tailwind.config.js lines 62-94                              *)

InitUI == Init

FreeCalls(u, n) == { c \in CallIds : u.calls[n][c] = "free" }
NextCall(u, n) == CHOOSE c \in FreeCalls(u, n) : \A d \in FreeCalls(u, n) : c <= d

\* fetchGasData up to its first await
fetchGasData(u, n) ==
    [u EXCEPT !.loading[n] = TRUE,
              !.error[n] = "null",
              !.calls[n][NextCall(u, n)] = "fetch"]

fetchAllData(u) == fetchGasData(fetchGasData(u, "mainnet"), "testnet")

\* the catch and finally blocks
Failed(u, n, c, message) ==
    [u EXCEPT !.error[n] = message, !.loading[n] = FALSE, !.calls[n][c] = "free"]

\* the effect of the first render
Mount ==
    /\ ui.phase = "initial"
    /\ ui' = [fetchAllData(ui) EXCEPT !.phase = "mounted"]
    /\ UNCHANGED <<passVars, arg, out, passes>>

\* the interval fires
Tick ==
    /\ ui.phase = "mounted"
    /\ \A n \in CardNetworks : FreeCalls(ui, n) # {}
    /\ ui' = fetchAllData(ui)
    /\ UNCHANGED <<passVars, arg, out, passes>>

\* the cleanup of the effect; what the calls under way do later shows nowhere
Unmount ==
    /\ ui.phase = "mounted"
    /\ ui' = [NoApp EXCEPT !.phase = "unmounted"]
    /\ UNCHANGED <<passVars, arg, out, passes>>

FetchResolves(n, c, ok) ==
    /\ ui.phase = "mounted"
    /\ ui.calls[n][c] = "fetch"
    /\ ui' = IF ok THEN [ui EXCEPT !.calls[n][c] = "json"]
                   ELSE Failed(ui, n, c, "HTTP error! status")
    /\ UNCHANGED <<passVars, arg, out, passes>>

FetchRejects(n, c) ==
    /\ ui.phase = "mounted"
    /\ ui.calls[n][c] = "fetch"
    /\ ui' = Failed(ui, n, c, "Failed to fetch")
    /\ UNCHANGED <<passVars, arg, out, passes>>

JsonResolves(n, c, d) ==
    /\ ui.phase = "mounted"
    /\ ui.calls[n][c] = "json"
    /\ ui' = [ui EXCEPT !.data[n] = d, !.loading[n] = FALSE, !.calls[n][c] = "free"]
    /\ UNCHANGED <<passVars, arg, out, passes>>

JsonRejects(n, c) ==
    /\ ui.phase = "mounted"
    /\ ui.calls[n][c] = "json"
    /\ ui' = Failed(ui, n, c, "Unexpected token")
    /\ UNCHANGED <<passVars, arg, out, passes>>

NextUI ==
    \/ Mount
    \/ Tick
    \/ Unmount
    \/ \E n \in CardNetworks, c \in CallIds :
        \/ \E ok \in BOOLEAN : FetchResolves(n, c, ok)
        \/ FetchRejects(n, c)
        \/ \E d \in GasDataValues : JsonResolves(n, c, d)
        \/ JsonRejects(n, c)

SpecUI == InitUI /\ [][NextUI]_vars

\* what the card of a network renders
ShowsSpinner(n) == ui.loading[n]
ShowsPrices(n) == ui.data[n] # "null" /\ ~ui.loading[n] /\ ui.error[n] = "null"
InFlight(n) == \E c \in CallIds : ui.calls[n][c] # "free"

\* C15 as stated: for each network, whenever a fetchGasData call for it is
\* in flight, its loading flag is true: the card shows the spinner and no
\* price data.
C15_LoadingWhileInFlight ==
    ui.phase = "mounted" =>
        \A n \in CardNetworks : InFlight(n) => ShowsSpinner(n) /\ ~ShowsPrices(n)

-----------------------------------------------------------------------------
(* One response per request *)

TierFields == {"safeLow", "standard", "fast"}

\* a response, once sent, is never followed by another
AnsweredOnce == [][response # NoResponse => response' = response]_vars

\* C16 as stated, its part about which response a request receives: a
\* finished request has its response, and that is status 400 for a network
\* that is not configured, a success with a timestamp and the three tiers of
\* the estimate when the pass succeeds, and status 500 without tier values
\* when the pass fails.
C16_ResponseFitsOutcome ==
    /\ pc = "done" => response # NoResponse
    /\ response # NoResponse =>
        \/ /\ network \notin DOMAIN NETWORKS
           /\ response.status = 400
        \/ /\ network \in DOMAIN NETWORKS
           /\ result.kind = "estimate"
           /\ response.status = 200
           /\ "timestamp" \in DOMAIN response
           /\ \A f \in TierFields : response[f] = result[f]
        \/ /\ network \in DOMAIN NETWORKS
           /\ result.kind = "error"
           /\ response.status = 500
           /\ TierFields \cap DOMAIN response = {}

====
